---------------------------- MODULE Spec2Model ----------------------------
(***************************************************************************)
(* A model of src/flowfields.py: the FlowField grid (construction,         *)
(* init_field, the default generator), the neighbourhood sampler           *)
(* get_vector with its weighting function, and Particle.flow_particle.     *)
(*                                                                         *)
(* Real-valued quantities (coordinates, vectors, the resolution) are       *)
(* fixed-point integers counting units of 1/Scale; weights count units of  *)
(* 1/WScale.  IEEE inf and nan are one absorbing value, NonFinite.  numpy  *)
(* arrays are functions over index tuples, or sequences for 1-D arrays.    *)
(***************************************************************************)
EXTENDS Integers, Sequences, FiniteSets, TLC

(***************************************************************************)
(* Bounds of the model.                                                    *)
(***************************************************************************)
MaxWidth == 3
MaxLifespan == 2
MaxCalls == 2

(***************************************************************************)
(* Number representation.                                                  *)
(***************************************************************************)
Scale == 4
WScale == Scale * Scale * Scale
NonFinite == -(2 ^ 30)

Abs(a) == IF a < 0 THEN -a ELSE a
Max(a, b) == IF a >= b THEN a ELSE b
Min(a, b) == IF a <= b THEN a ELSE b

\* Python's int() of the real number u/Scale: truncation towards zero.
PyInt(u) == IF u >= 0 THEN u \div Scale ELSE -((-u) \div Scale)

\* Python's a % b (the result has the sign of the divisor b, b # 0).
PyMod(a, b) == IF b > 0 THEN a % b ELSE -((-a) % (-b))

\* math.ceil(a / b) for b # 0.
Ceil(a, b) == IF b > 0 THEN -((-a) \div b) ELSE -(a \div (-b))

RECURSIVE SqrtSearch(_, _, _)
SqrtSearch(n, lo, hi) ==
    IF lo >= hi THEN lo
    ELSE LET mid == (lo + hi + 1) \div 2
         IN IF mid * mid <= n THEN SqrtSearch(n, mid, hi)
            ELSE SqrtSearch(n, lo, mid - 1)

\* np.sqrt on a non-negative integer, rounded down.
Sqrt(n) == SqrtSearch(n, 0, Min(n, 46340))

\* float addition, inf/nan absorbing.
FAdd(a, b) == IF a = NonFinite \/ b = NonFinite THEN NonFinite ELSE a + b

\* 2*pi*sin(u/Scale) and 2*pi*cos(u/Scale) in units of 1/Scale, rounded to
\* the nearest unit, for |u| <= 24.
SinTab == <<0, 6, 12, 17, 21, 24, 25, 25, 23, 20, 15, 10, 4, -3, -9, -14,
            -19, -22, -25, -25, -24, -22, -18, -13, -7>>
CosTab == <<25, 24, 22, 18, 14, 8, 2, -4, -10, -16, -20, -23, -25, -25, -24,
            -21, -16, -11, -5, 1, 7, 13, 18, 22, 24>>
TwoPiSin(u) == IF u < 0 THEN -SinTab[(-u) + 1] ELSE SinTab[u + 1]
TwoPiCos(u) == CosTab[Abs(u) + 1]

\* np.arange(lo, hi) for integers, as a sequence.
Arange(lo, hi) == [n \in 1..Max(0, hi - lo) |-> lo + n - 1]

\* len(np.arange(0, stop, step)) for step # 0.
ArangeLen(stop, step) == Max(0, Ceil(stop, step))

(***************************************************************************)
(* FlowField                                                               *)
(***************************************************************************)
ValidDecays == {"inv_linear", "inv_quadratic", "inv_cubic"}

\* FlowField.__gen_vector, the default generator.
gen_vector(self, x, y) ==
    LET x1 == TwoPiSin(x) + y
        y1 == TwoPiCos(y) + x1
        w  == self.width * Scale
        h  == self.height * Scale
    IN << IF x1 < 0 \/ x1 >= w THEN PyMod(x1, w) ELSE x1,
          IF y1 < 0 \/ y1 >= h THEN PyMod(y1, h) ELSE y1 >>

\* The generators init_field is called with: None (the default), the
\* identity g(x, y) = (x, y), and a constant field.
Generators == {"default", "identity", "constant"}
field_fn(self, g, x, y) ==
    CASE g = "default"  -> gen_vector(self, x, y)
      [] g = "identity" -> <<x, y>>
      [] OTHER          -> <<Scale, 0>>

\* The grid index (row r of the y axis, column c of the x axis) of the
\* meshgrid whose flattened entry f ends up in cell (i, j) after the reshape.
MeshCell(i, j, nx, sy) == LET f == i * sy + j IN [r |-> f \div nx, c |-> f % nx]

\* FlowField.init_field: returns the object after the call.  A reshape of an
\* array of another size raises ValueError and leaves the field as it was.
init_field(self, g) ==
    LET nx == ArangeLen(self.width * Scale, self.resolution)
        ny == ArangeLen(self.height * Scale, self.resolution)
        sx == self.shape[1]
        sy == self.shape[2]
    IN IF nx * ny # sx * sy
       THEN [self EXCEPT !.status = "ValueError"]
       ELSE [self EXCEPT !.field =
                [ij \in (0..(sx - 1)) \X (0..(sy - 1)) |->
                    LET m == MeshCell(ij[1], ij[2], nx, sy)
                    IN field_fn(self, g, m.c * self.resolution,
                                         m.r * self.resolution)]]

\* A variant of FlowField: a negative width, height or resolution is
\* rejected before the grid is allocated.
FlowField_Validated(width, height, resolution, neighbourhood_size, decay) ==
    LET k  == IF neighbourhood_size < 2 THEN 2 ELSE neighbourhood_size
        d  == IF decay \notin ValidDecays THEN "linear" ELSE decay
        sx == Ceil(width * Scale, resolution)
        sy == Ceil(height * Scale, resolution)
        self == [status |-> "ok", width |-> width, height |-> height,
                 resolution |-> resolution, neighbourhood_size |-> k,
                 decay |-> d, shape |-> <<sx, sy>>, field |-> <<>>]
    IN IF width < 0 \/ height < 0 \/ resolution < 0
       THEN [self EXCEPT !.status = "ValueError", !.shape = <<0, 0>>]
       ELSE init_field(self, "default")

\* FlowField.__init__: the object after construction; status "ValueError"
\* when np.zeros is given a negative dimension.
FlowField(width, height, resolution, neighbourhood_size, decay) ==
    LET k  == IF neighbourhood_size < 2 THEN 2 ELSE neighbourhood_size
        d  == IF decay \notin ValidDecays THEN "linear" ELSE decay
        sx == Ceil(width * Scale, resolution)
        sy == Ceil(height * Scale, resolution)
        self == [status |-> "ok", width |-> width, height |-> height,
                 resolution |-> resolution, neighbourhood_size |-> k,
                 decay |-> d, shape |-> <<sx, sy>>, field |-> <<>>]
    IN IF sx < 0 \/ sy < 0
       THEN [self EXCEPT !.status = "ValueError", !.shape = <<0, 0>>]
       ELSE init_field(self, "default")

NoField == [status |-> "none", width |-> 0, height |-> 0, resolution |-> 0,
            neighbourhood_size |-> 0, decay |-> "", shape |-> <<0, 0>>,
            field |-> <<>>]


(***************************************************************************)
(* FlowField.get_vector                                                    *)
(***************************************************************************)
\* Python's slice lo:hi on an axis of n cells: the indices it selects.  A
\* negative bound counts from the end, and both bounds are clipped to [0, n].
SliceBound(a, n) == IF a < 0 THEN Max(0, a + n) ELSE Min(a, n)
Slice(lo, hi, n) == Arange(SliceBound(lo, n), SliceBound(hi, n))

\* Lines 114-117: the bounds int(x - k/2), int(x + k/2) of one axis.
AxisBounds(self, x) ==
    LET half == (self.neighbourhood_size * Scale) \div 2
    IN [min |-> PyInt(x - half), max |-> PyInt(x + half)]

\* Lines 120-125: both bounds are reduced modulo the extent (width or
\* height) when the lower one is negative or the upper one reaches it.
WrapAxis(b, extent) ==
    IF b.min < 0 \/ b.max >= extent
    THEN [min |-> PyMod(b.min, extent), max |-> PyMod(b.max, extent)]
    ELSE b

\* x_min, x_max, y_min, y_max as they are when the window is extracted.
Neighbourhood(self, x, y) ==
    LET bx == WrapAxis(AxisBounds(self, x), self.width)
        by == WrapAxis(AxisBounds(self, y), self.height)
    IN [x_min |-> bx.min, x_max |-> bx.max, y_min |-> by.min, y_max |-> by.max]

\* Line 128: the grid indices of vectors = field[x_min:x_max, y_min:y_max, :].
WindowX(self, nb) == Slice(nb.x_min, nb.x_max, self.shape[1])
WindowY(self, nb) == Slice(nb.y_min, nb.y_max, self.shape[2])

\* Lines 130-131: x_coords and y_coords.
Coords(lo, hi, resolution) ==
    [n \in 1..Max(0, hi - lo) |-> Arange(lo, hi)[n] * resolution]

\* Distances are kept in units of 1/DScale.
DScale == 4 * Scale
Dist(dx, dy) ==
    LET fx == (DScale \div Scale) * dx
        fy == (DScale \div Scale) * dy
    IN Sqrt(fx * fx + fy * fy)

\* Line 134: np.sqrt((x_coords - x) ** 2 + (y_coords - y) ** 2) on the two
\* 1-D arrays.  numpy broadcasts a length-1 array against the other one and
\* raises ValueError when the lengths differ otherwise.
Distances(x_coords, y_coords, x, y) ==
    LET a == Len(x_coords)
        b == Len(y_coords)
    IN IF a # b /\ a # 1 /\ b # 1
       THEN [err |-> TRUE, d |-> <<>>]
       ELSE [err |-> FALSE,
             d |-> [n \in 1..(IF a = 1 THEN b ELSE a) |->
                      Dist(x_coords[IF a = 1 THEN 1 ELSE n] - x,
                           y_coords[IF b = 1 THEN 1 ELSE n] - y)]]

\* The three decay laws on one distance, in units of 1/WScale.  A zero
\* distance gives inf (numpy warns and carries on).
InvLinear(d) == IF d = 0 THEN NonFinite ELSE (WScale * DScale) \div d
InvQuadratic(d) ==
    IF d = 0 THEN NonFinite ELSE (WScale * DScale * DScale) \div (d * d)
InvCubic(d) ==
    IF d = 0 THEN NonFinite
    ELSE IF d * d > WScale * DScale * DScale THEN 0
    ELSE (WScale * DScale * DScale * DScale) \div (d * d * d)

\* FlowField.__get_weights: falls off the end (returns None) when the decay
\* is none of the three names.
get_weights(self, distances) ==
    CASE self.decay = "inv_linear" ->
            [none |-> FALSE, w |-> [n \in DOMAIN distances |-> InvLinear(distances[n])]]
      [] self.decay = "inv_quadratic" ->
            [none |-> FALSE, w |-> [n \in DOMAIN distances |-> InvQuadratic(distances[n])]]
      [] self.decay = "inv_cubic" ->
            [none |-> FALSE, w |-> [n \in DOMAIN distances |-> InvCubic(distances[n])]]
      [] OTHER -> [none |-> TRUE, w |-> <<>>]

\* The index of the weight that numpy's broadcast of vectors * weights pairs
\* with component c (1 or 2) of cell (i, j): weights has one axis, which is
\* aligned with the LAST axis of vectors, the component axis.
WeightIndex(i, j, c, m) == IF m = 1 THEN 1 ELSE c

RECURSIVE SumOver(_, _, _, _, _)
SumOver(cells, self, weights, c, acc) ==
    IF cells = {} THEN acc
    ELSE LET ij == CHOOSE e \in cells : TRUE
             w  == weights[WeightIndex(ij[1], ij[2], c, Len(weights))]
             t  == IF w = NonFinite THEN NonFinite
                   ELSE self.field[ij][c] * w
         IN SumOver(cells \ {ij}, self, weights, c, FAdd(acc, t))

\* Line 139: np.sum(vectors * weights, axis=(0, 1)), one component.
WeightedSum(self, xi, yi, weights, c) ==
    LET s == SumOver({<<xi[a], yi[b]>> : a \in DOMAIN xi, b \in DOMAIN yi},
                     self, weights, c, 0)
    IN IF s = NonFinite THEN NonFinite ELSE s \div WScale

Raise == [err |-> TRUE, v |-> <<0, 0>>]

\* FlowField.get_vector(x, y): err when an exception is raised, else the
\* returned vector.
get_vector(self, x, y) ==
    IF x = NonFinite \/ y = NonFinite THEN Raise
    ELSE
    LET nb == Neighbourhood(self, x, y)
        xi == WindowX(self, nb)
        yi == WindowY(self, nb)
        dist == Distances(Coords(nb.x_min, nb.x_max, self.resolution),
                          Coords(nb.y_min, nb.y_max, self.resolution), x, y)
        weights == get_weights(self, dist.d)
    IN IF dist.err \/ weights.none \/ Len(weights.w) \notin {1, 2}
       THEN Raise
       ELSE [err |-> FALSE,
             v |-> << WeightedSum(self, xi, yi, weights.w, 1),
                      WeightedSum(self, xi, yi, weights.w, 2) >>]


(***************************************************************************)
(* Particle                                                                *)
(***************************************************************************)
\* Particle.__init__.  x, y, lifespan and pos are the object's attributes
\* (color is passed through to rendering and left out).  pc, remaining and
\* calls are the control state of flow_particle: where the call stands, the
\* iterations range(lifespan) still has to yield, and the calls made so far.
\* init and vecs record the constructor's arguments and the vectors the
\* sampler returned, for the properties to refer to.
Particle(x, y, lifespan) ==
    [x |-> x, y |-> y, lifespan |-> lifespan, pos |-> << <<x, y>> >>,
     pc |-> "idle", remaining |-> lifespan, calls |-> 0,
     init |-> <<x, y>>, vecs |-> <<>>]

\* A variant of LoopRange: the loop runs only for the steps the particle has
\* not taken yet, so a second call does nothing.
LoopRange_Budget(self) == Max(0, self.lifespan - (Len(self.pos) - 1))

\* Line 198: the number of iterations of the loop of one call.
LoopRange(self) == self.lifespan

\* A variant of Advance: the new coordinate is wrapped into [0, MaxWidth).
Advance_Wrapped(coord, delta) ==
    IF FAdd(coord, delta) = NonFinite THEN NonFinite
    ELSE (coord + delta) % (MaxWidth * Scale)

\* Lines 202-203: self.x += vector[0] (and y).
Advance(coord, delta) == FAdd(coord, delta)

\* Line 204: self.pos = np.vstack((self.pos, [self.x, self.y])).
Vstack(pos, x, y) == Append(pos, <<x, y>>)

(***************************************************************************)
(* State                                                                   *)
(***************************************************************************)
VARIABLES
    ff,         \* the FlowField object
    generator,  \* the field_fn the field was last initialised with
    call,       \* the last get_vector call made from outside: arguments, result
    particles   \* the Particle objects, by identity

vars == <<ff, generator, call, particles>>

NoCall == [made |-> FALSE, x |-> 0, y |-> 0, ret |-> Raise]

\* Inputs.
Widths == {-2, -1} \cup (2..MaxWidth)
Heights == {-2, -1} \cup (2..MaxWidth)
Resolutions == {-Scale, Scale \div 2, Scale, 2 * Scale}
Sizes == {1, 2, 3}
Decays == ValidDecays \cup {"linear"}
Queries == {-6, -2, 0, 2, 4, 6, 10, 14, 20}
Pids == {1, 2}
Starts == {<<2, 2>>, <<4, 4>>, <<3, 6>>}

Positive(w, h, r) == w > 0 /\ h > 0 /\ r > 0

(***************************************************************************)
(* Operations                                                              *)
(***************************************************************************)
\* ff = FlowField(width, height, resolution, neighbourhood_size, decay)
Construct(w, h, r, k, d) ==
    /\ ff.status = "none"
    /\ ff' = FlowField(w, h, r, k, d)
    /\ generator' = "default"
    /\ UNCHANGED <<call, particles>>

\* ff.init_field(g)
InitField(g) ==
    /\ ff.status = "ok"
    /\ ff' = [init_field(ff, g) EXCEPT !.status = "ok"]
    /\ generator' = IF init_field(ff, g).status = "ok" THEN g ELSE generator
    /\ UNCHANGED <<call, particles>>

\* ff.get_vector(x, y), called from outside a particle.
GetVector(x, y) ==
    /\ ff.status = "ok"
    /\ call' = [made |-> TRUE, x |-> x, y |-> y, ret |-> get_vector(ff, x, y)]
    /\ UNCHANGED <<ff, generator, particles>>

\* p.flow_particle(ff) is called: range(self.lifespan) is evaluated.
Call(p) ==
    /\ particles[p].pc \in {"idle", "done", "raised"}
    /\ particles[p].calls < MaxCalls
    /\ particles' = [particles EXCEPT ![p].pc = "loop",
                                      ![p].remaining = LoopRange(particles[p]),
                                      ![p].calls = @ + 1]
    /\ UNCHANGED <<ff, generator, call>>

\* A variant of Step: pos is one array shared by all particles (a class
\* attribute), so a step appends the new position to every trajectory.
Step_SharedPos(p) ==
    /\ particles[p].pc = "loop"
    /\ particles[p].remaining > 0
    /\ LET self == particles[p]
           vector == get_vector(ff, self.x, self.y)
           x == FAdd(self.x, vector.v[1])
           y == FAdd(self.y, vector.v[2])
       IN particles' =
             IF vector.err
             THEN [particles EXCEPT ![p].pc = "raised"]
             ELSE [q \in DOMAIN particles |->
                     IF q = p
                     THEN [self EXCEPT !.x = x, !.y = y,
                                       !.pos = Append(self.pos, <<x, y>>),
                                       !.remaining = @ - 1,
                                       !.vecs = Append(@, vector.v)]
                     ELSE [particles[q] EXCEPT !.pos = Append(@, <<x, y>>)]]
    /\ UNCHANGED <<ff, generator, call>>

\* One iteration of the loop of flow_particle; an exception of get_vector
\* ends the call with the particle as it was.
Step(p) ==
    /\ particles[p].pc = "loop"
    /\ particles[p].remaining > 0
    /\ LET self == particles[p]
           vector == get_vector(ff, self.x, self.y)
           x == Advance(self.x, vector.v[1])
           y == Advance(self.y, vector.v[2])
       IN particles' =
             IF vector.err
             THEN [particles EXCEPT ![p].pc = "raised"]
             ELSE [particles EXCEPT ![p].x = x, ![p].y = y,
                                    ![p].pos = Vstack(self.pos, x, y),
                                    ![p].remaining = @ - 1,
                                    ![p].vecs = Append(@, vector.v)]
    /\ UNCHANGED <<ff, generator, call>>

\* The loop is exhausted: flow_particle returns.
Return(p) ==
    /\ particles[p].pc = "loop"
    /\ particles[p].remaining = 0
    /\ particles' = [particles EXCEPT ![p].pc = "done"]
    /\ UNCHANGED <<ff, generator, call>>

(***************************************************************************)
(* Specifications                                                          *)
(***************************************************************************)
\* Construction and (re-)initialisation of the grid, from any configuration.
InitField0 ==
    /\ ff = NoField
    /\ generator = "default"
    /\ call = NoCall
    /\ particles = <<>>

NextField ==
    \/ \E w \in Widths, h \in Heights, r \in Resolutions, k \in Sizes, d \in Decays :
          Construct(w, h, r, k, d)
    \/ \E g \in Generators : InitField(g)

SpecField == InitField0 /\ [][NextField]_vars

\* get_vector on a grid of a positive configuration.
Fields(ws, hs, rs, ks, ds, gs) ==
    { init_field(FlowField(w, h, r, k, d), g) :
        w \in ws, h \in hs, r \in rs, k \in ks, d \in ds, g \in gs }

InitSample ==
    /\ \E g \in Generators :
         /\ generator = g
         /\ ff \in Fields({w \in Widths : w > 0}, {h \in Heights : h > 0},
                          {r \in Resolutions : r > 0}, Sizes, Decays, {g})
    /\ call = NoCall
    /\ particles = <<>>

NextSample == \E x \in Queries, y \in Queries : GetVector(x, y)

SpecSample == InitSample /\ [][NextSample]_vars

\* Particles advected against one shared grid, their steps interleaved.
FlowDecays == {"inv_linear", "inv_quadratic"}
InitFlow ==
    /\ generator = "default"
    /\ ff \in Fields({MaxWidth}, {MaxWidth}, {Scale \div 2, Scale}, {2, 3},
                     FlowDecays, {"default"})
    /\ call = NoCall
    /\ particles \in [Pids -> { Particle(s[1], s[2], l) :
                                  s \in Starts, l \in 0..MaxLifespan }]

NextFlow == \E p \in Pids : Call(p) \/ Step(p) \/ Return(p)

SpecFlow == InitFlow /\ [][NextFlow]_vars


(***************************************************************************)
(* Properties of the particle advection (SpecFlow)                         *)
(***************************************************************************)
\* The steps a particle has taken since it was created.
StepsTaken(self) == Len(self.pos) - 1

\* Terminal: the particle has taken all its lifespan steps.
Terminal(self) == StepsTaken(self) >= self.lifespan

\* The counting part of C1 alone: during the first flow_particle call the
\* trajectory holds lifespan - remaining + 1 positions, the first being the
\* initial one, and remaining stays in 0..lifespan.
TrajectoryCount(self) ==
    /\ self.remaining \in 0..self.lifespan
    /\ Len(self.pos) = self.lifespan - self.remaining + 1
    /\ self.pos[1] = self.init

\* C1: during a particle's advection (its first flow_particle call: before
\* the first step, after each step, on completion) the trajectory holds
\* exactly lifespan - remaining + 1 positions, remaining counting down from
\* the lifespan to 0, and the call ends only after exactly lifespan steps,
\* with lifespan + 1 positions, the first being the initial position.
C1_AdvectionRunsLifespanSteps ==
    \A p \in DOMAIN particles :
        LET self == particles[p]
        IN self.calls <= 1 =>
             /\ TrajectoryCount(self)
             /\ self.pc \in {"done", "raised"} =>
                   /\ self.remaining = 0
                   /\ Len(self.pos) = self.lifespan + 1

C7_StepIsSampledVector ==
    \A p \in DOMAIN particles :
        LET self == particles[p]
        IN /\ Len(self.vecs) = Len(self.pos) - 1
           /\ <<self.x, self.y>> = self.pos[Len(self.pos)]
           /\ \A i \in 1..Len(self.vecs) :
                 LET r == get_vector(ff, self.pos[i][1], self.pos[i][2])
                 IN /\ ~r.err
                    /\ r.v = self.vecs[i]
                    /\ self.pos[i + 1] = << FAdd(self.pos[i][1], r.v[1]),
                                            FAdd(self.pos[i][2], r.v[2]) >>

\* A particle has taken two steps and has left the domain
\* [0, width) x [0, height).
C7_Witness ==
    \E p \in DOMAIN particles :
        /\ Len(particles[p].pos) >= 3
        /\ particles[p].x # NonFinite
        /\ particles[p].y # NonFinite
        /\ \/ particles[p].x >= ff.width * Scale
           \/ particles[p].y >= ff.height * Scale

\* The trajectory of a particle advected alone from position (x, y) with n
\* loop iterations left, an exception of the sampler ending it.
RECURSIVE Alone(_, _, _, _, _)
Alone(field, x, y, n, acc) ==
    IF n = 0 THEN acc
    ELSE LET r == get_vector(field, x, y)
         IN IF r.err THEN acc
            ELSE Alone(field, FAdd(x, r.v[1]), FAdd(y, r.v[2]), n - 1,
                       Append(acc, <<FAdd(x, r.v[1]), FAdd(y, r.v[2])>>))

\* Between calls a particle's trajectory is the one it gets alone.
FinalIsAlone ==
    \A p \in DOMAIN particles :
        LET self == particles[p]
        IN self.pc \in {"idle", "done", "raised"} =>
             self.pos = Alone(ff, self.init[1], self.init[2],
                              self.calls * self.lifespan, << self.init >>)

\* A step leaves the grid and its configuration alone and changes at most
\* one particle.
StepIsLocal ==
    /\ ff' = ff
    /\ generator' = generator
    /\ \A p, q \in DOMAIN particles :
          (p # q /\ particles'[p] # particles[p]) => particles'[q] = particles[q]

\* C8: under every interleaving of the particles' steps, no step changes the
\* grid or its configuration, no step of one particle changes another
\* particle, and each particle's final trajectory is the one it gets when it
\* is advected alone.
C8_ParticlesIndependent == []FinalIsAlone /\ [][StepIsLocal]_vars

\* Both particles have finished an advection of at least one step against
\* the shared grid, with different trajectories.
C8_Witness ==
    /\ \A p \in DOMAIN particles :
          /\ particles[p].pc = "done"
          /\ particles[p].lifespan >= 1
    /\ particles[1].pos # particles[2].pos


(***************************************************************************)
(* Properties of construction and initialisation (SpecField)               *)
(***************************************************************************)
\* C3: whatever is passed as decay, construction (of an otherwise valid
\* configuration) does not fail and the stored decay is one of the three
\* laws, so that __get_weights returns a weight for a distance.
C3_DecayAlwaysValid ==
    (ff.status # "none" /\ Positive(ff.width, ff.height, ff.resolution)) =>
        /\ ff.status = "ok"
        /\ ff.decay \in ValidDecays
        /\ ~get_weights(ff, <<DScale>>).none

\* C5: after init_field with the generator g(x, y) = (x, y), every cell
\* field[i, j] of the ceil(width/resolution) x ceil(height/resolution) grid
\* holds (i * resolution, j * resolution).
C5_IdentityGrid ==
    (ff.status = "ok" /\ generator = "identity") =>
        \A i \in 0..(Ceil(ff.width * Scale, ff.resolution) - 1),
           j \in 0..(Ceil(ff.height * Scale, ff.resolution) - 1) :
            ff.field[<<i, j>>] = <<i * ff.resolution, j * ff.resolution>>

AnyNegative(self) == self.width < 0 \/ self.height < 0 \/ self.resolution < 0

\* C6 as stated: a construction with a negative width, height or resolution
\* fails and produces no grid.
C6_NegativeRejected ==
    (ff.status # "none" /\ AnyNegative(ff)) =>
        /\ ff.status = "ValueError"
        /\ ff.field = <<>>

\* extent / resolution <= -1, on the arguments as given.
QuotientAtMostMinusOne(extent, resolution) ==
    /\ (extent < 0) # (resolution < 0)
    /\ Abs(extent * Scale) >= Abs(resolution)

\* C6 as amended: a construction with a negative width, height or
\* resolution fails (ValueError of the allocation, no grid) exactly when
\* width/resolution <= -1 or height/resolution <= -1; otherwise (the signs
\* cancel, or the quotient rounds up to 0) it succeeds and every cell of the
\* grid of the computed shape is populated.
C6_FailsOnNegativeShapeOnly ==
    (ff.status # "none" /\ AnyNegative(ff)) =>
        /\ ff.status \in {"ok", "ValueError"}
        /\ (ff.status = "ValueError") <=>
              \/ QuotientAtMostMinusOne(ff.width, ff.resolution)
              \/ QuotientAtMostMinusOne(ff.height, ff.resolution)
        /\ ff.status = "ValueError" => ff.field = <<>>
        /\ ff.status = "ok" =>
              DOMAIN ff.field = (0..(ff.shape[1] - 1)) \X (0..(ff.shape[2] - 1))

\* A construction with width, height and resolution all negative has
\* succeeded and produced a grid with cells.
C6_Witness ==
    /\ ff.status = "ok"
    /\ ff.width < 0 /\ ff.height < 0 /\ ff.resolution < 0
    /\ ff.shape[1] > 0 /\ ff.shape[2] > 0
    /\ DOMAIN ff.field # {}

(***************************************************************************)
(* Properties of the sampler (SpecSample)                                  *)
(***************************************************************************)
\* C4: for every query, after the wraparound step get_vector addresses only
\* grid indices in [0, number of cells of the axis), it does not fail, and it
\* returns what it returns at the coordinate reduced modulo the domain size.
C4_WrapAround ==
    call.made =>
        LET nb == Neighbourhood(ff, call.x, call.y)
            xs == Arange(nb.x_min, nb.x_max)
            ys == Arange(nb.y_min, nb.y_max)
        IN /\ \A n \in DOMAIN xs : xs[n] \in 0..(ff.shape[1] - 1)
           /\ \A n \in DOMAIN ys : ys[n] \in 0..(ff.shape[2] - 1)
           /\ ~call.ret.err
           /\ call.ret = get_vector(ff, PyMod(call.x, ff.width * Scale),
                                        PyMod(call.y, ff.height * Scale))

\* floor of the real number u/Scale.
Floor(u) == u \div Scale

\* C9: for every query and every neighbourhood_size k >= 2 the bounds of
\* each axis are floor(x - k/2) and floor(x + k/2), and after the wraparound
\* step the window is k cells wide on each axis.
C9_SquareWindow ==
    call.made =>
        LET k == ff.neighbourhood_size
            half == (k * Scale) \div 2
            nb == Neighbourhood(ff, call.x, call.y)
        IN /\ AxisBounds(ff, call.x) =
                 [min |-> Floor(call.x - half), max |-> Floor(call.x + half)]
           /\ AxisBounds(ff, call.y) =
                 [min |-> Floor(call.y - half), max |-> Floor(call.y + half)]
           /\ Len(WindowX(ff, nb)) = k
           /\ Len(WindowY(ff, nb)) = k

\* The decay law selected at construction, on one distance.
Law(decay, d) ==
    CASE decay = "inv_linear" -> InvLinear(d)
      [] decay = "inv_quadratic" -> InvQuadratic(d)
      [] OTHER -> InvCubic(d)

\* C10: for every query on a grid with a valid decay, get_vector computes
\* one weight per cell of the window, the number of weights is the number of
\* cells, and the weight that multiplies either component of cell (i, j) is
\* the decay law of the distance between the query and (i, j) * resolution.
C10_WeightPerCell ==
    (call.made /\ ff.decay \in ValidDecays) =>
        LET nb == Neighbourhood(ff, call.x, call.y)
            xi == WindowX(ff, nb)
            yi == WindowY(ff, nb)
            dist == Distances(Coords(nb.x_min, nb.x_max, ff.resolution),
                              Coords(nb.y_min, nb.y_max, ff.resolution),
                              call.x, call.y)
            weights == get_weights(ff, dist.d).w
        IN /\ ~dist.err
           /\ Len(weights) = Len(xi) * Len(yi)
           /\ \A a \in DOMAIN xi, b \in DOMAIN yi, c \in {1, 2} :
                 weights[WeightIndex(xi[a], yi[b], c, Len(weights))] =
                    Law(ff.decay, Dist(xi[a] * ff.resolution - call.x,
                                       yi[b] * ff.resolution - call.y))

=============================================================================
